---- MODULE Spec2Model ----
(***************************************************************************)
(* Model of mlinterp (src/mlinterp/mlinterp.hpp): multilinear             *)
(* interpolation on a rectilinear grid.                                    *)
(*                                                                         *)
(* The value type T is modelled by exact rationals <<num, den>> in lowest  *)
(* terms (den > 0), so every statement about sums and products is one of   *)
(* exact arithmetic.  std::numeric_limits<T>::epsilon() is 1/EpsDen, the   *)
(* epsilon of a binary floating-point type with a short significand        *)
(* (2^-52 for double); query coordinates are fine enough (1/QDen) for      *)
(* weights at and below epsilon to occur, as 2^-53 does for double.        *)
(* The arrays of the program are functions on 0 .. n-1, as in the source.  *)
(* A read outside the value table yields an arbitrary value.               *)
(* The state machine executes interp one loop iteration at a time; the     *)
(* binary search of detail::helper::run is executed one iteration of its   *)
(* while loop at a time.  Run, InterpPoint and the mux operators give the  *)
(* same code as functions of the inputs.                                   *)
(***************************************************************************)
EXTENDS Integers, Sequences, FiniteSets, TLC

\* ------------------------------------------------------------------ bounds
\* Largest number of knots on one axis.
MaxN == 4
\* Knot coordinates are the integers -1 .. MaxKnot.
MaxKnot == 2
\* Query coordinates are multiples of 1/QDen.
QDen == 8
\* Largest number of query points of one call.
MaxNi == 2
\* epsilon() of the modelled value type is 1/EpsDen.
EpsDen == 4

\* ------------------------------------------------- the value type T (exact)
Abs(a) == IF a < 0 THEN -a ELSE a

RECURSIVE GCD(_, _)
GCD(a, b) == IF b = 0 THEN a ELSE GCD(b, a % b)

\* n/d in lowest terms, for d > 0.
Rat(n, d) == LET g == GCD(Abs(n), d) IN <<n \div g, d \div g>>

T(i) == <<i, 1>>
Zero == T(0)
One == T(1)

RAdd(a, b) == Rat(a[1] * b[2] + b[1] * a[2], a[2] * b[2])
RSub(a, b) == Rat(a[1] * b[2] - b[1] * a[2], a[2] * b[2])
RMul(a, b) == Rat(a[1] * b[1], a[2] * b[2])
\* a / b for b # 0.
RDiv(a, b) ==
    IF b[1] > 0 THEN Rat(a[1] * b[2], a[2] * b[1])
    ELSE Rat(-(a[1] * b[2]), -(a[2] * b[1]))
RLt(a, b) == a[1] * b[2] < b[1] * a[2]
RLe(a, b) == a[1] * b[2] <= b[1] * a[2]
RGe(a, b) == RLe(b, a)
RGt(a, b) == RLt(b, a)

\* std::numeric_limits<T>::epsilon()
Eps == Rat(1, EpsDen)

\* ------------------------------------------------------------------ state
VARIABLES
    Dimension,  \* number of axes (sizeof...(Args)/2)
    Order,      \* "natord" or "rnatord"
    nd,         \* nd[k]: number of knots on axis k
    ni,         \* number of query points
    xd,         \* xd[k][i]: knot i of axis k
    xi,         \* xi[k][j]: coordinate k of query point j
    yd,         \* the value table
    yi,         \* the output buffer
    n,          \* interp: index of the query point
    bitstr,     \* interp: corner bitmask
    axis,       \* helper::run: depth of the helper chain (axis being resolved)
    bits,       \* helper::run: its bitstr argument (shifted once per axis)
    indices,    \* interp: Index indices[Dimension]
    factor,     \* interp: T factor
    lo, hi,     \* helper::run: binary search range
    mid,        \* helper::run: bracket index
    weight,     \* helper::run: weight of the lower knot
    pc          \* position in the code

inputs == <<Dimension, Order, nd, ni, xd, xi, yd>>
vars == <<Dimension, Order, nd, ni, xd, xi, yd, yi, n, bitstr, axis, bits,
          indices, factor, lo, hi, mid, weight, pc>>

\* --------------------------------------------------- detail::helper::run
\* if(x <= xd[0])
ClampLeft(xdk, x) == RLe(x, xdk[0])

\* else if(x >= xd[*nd - 1])
ClampRight(xdk, nk, x) == RGe(x, xdk[nk - 1])

\* Mutant of RightMid: the index of the last knot instead of the last bracket.
RightMid_LastKnot(nk) == nk - 1

\* mid = *nd - 2 in the right clamp
RightMid(nk) == nk - 2

\* Index lo = 0, hi = *nd - 2
InitHi(nk) == nk - 2

\* mid = lo + (hi - lo) / 2
Midpoint(l, h) == l + (h - l) \div 2

\* Mutant of GoLeft: <= in place of <.
GoLeft_OrEqual(xdk, x, m) == RLe(x, xdk[m])

\* if(x < xd[mid])
GoLeft(xdk, x, m) == RLt(x, xdk[m])

\* Mutant of GoRight: > in place of >=.
GoRight_Strict(xdk, x, m) == RGt(x, xdk[m + 1])

\* else if(x >= xd[mid + 1])
GoRight(xdk, x, m) == RGe(x, xdk[m + 1])

\* weight = ( xd[mid + 1] - x ) / ( xd[mid + 1] - xd[mid] )
Weight(xdk, x, m) == RDiv(RSub(xdk[m + 1], x), RSub(xdk[m + 1], xdk[m]))

\* One iteration of while(lo <= hi) on s = [lo, hi, mid, weight, brk].
WhileBody(xdk, x, s) ==
    LET m == Midpoint(s.lo, s.hi) IN
    IF GoLeft(xdk, x, m)
    THEN [lo |-> s.lo, hi |-> m - 1, mid |-> m, weight |-> s.weight, brk |-> FALSE]
    ELSE IF GoRight(xdk, x, m)
    THEN [lo |-> m + 1, hi |-> s.hi, mid |-> m, weight |-> s.weight, brk |-> FALSE]
    ELSE [lo |-> s.lo, hi |-> s.hi, mid |-> m, weight |-> Weight(xdk, x, m), brk |-> TRUE]

\* The whole loop.
RECURSIVE While(_, _, _)
While(xdk, x, s) ==
    IF s.brk \/ s.lo > s.hi THEN s ELSE While(xdk, x, WhileBody(xdk, x, s))

\* Lines 24-51 as a function: the bracket index and weight of x on one axis.
Resolve(xdk, nk, x) ==
    IF ClampLeft(xdk, x) THEN [mid |-> 0, weight |-> One]
    ELSE IF ClampRight(xdk, nk, x) THEN [mid |-> RightMid(nk), weight |-> Zero]
    ELSE LET s == While(xdk, x, [lo |-> 0, hi |-> InitHi(nk), mid |-> 0,
                                 weight |-> Zero, brk |-> FALSE])
         IN [mid |-> s.mid, weight |-> s.weight]

\* Mutant of SelectIndex: the two branches exchanged.
SelectIndex_Swapped(bit, m) == IF bit = 1 THEN m + 1 ELSE m

\* if(bitstr & 1) *indices = mid; else *indices = mid + 1;
SelectIndex(bit, m) == IF bit = 1 THEN m ELSE m + 1

\* Mutant of SelectFactor: the upper knot weighted by weight too.
SelectFactor_NoComplement(bit, w, f) == RMul(f, w)

\* if(bitstr & 1) factor *= weight; else factor *= 1 - weight;
SelectFactor(bit, w, f) == IF bit = 1 THEN RMul(f, w) ELSE RMul(f, RSub(One, w))

\* h.run(nd, n, bitstr, indices, factor) as a function: the chain of helpers
\* from axis k on, for query point j; r = [indices, factor].
RECURSIVE Run(_, _, _, _)
Run(k, b, j, r) ==
    IF k = Dimension THEN r
    ELSE LET a == Resolve(xd[k], nd[k], xi[k][j]) IN
         Run(k + 1, b \div 2, j,
             [indices |-> [r.indices EXCEPT ![k] = SelectIndex(b % 2, a.mid)],
              factor |-> SelectFactor(b % 2, a.weight, r.factor)])

\* ------------------------------------------------- natord / rnatord :: mux
RECURSIVE NatLoop(_, _, _, _, _, _)
NatLoop(ndv, idx, Dim, index, product, i) ==
    LET index2 == index + idx[i] * product IN
    IF i = Dim - 1 THEN index2
    ELSE NatLoop(ndv, idx, Dim, index2, product * ndv[i], i + 1)

NatMux(ndv, idx, Dim) == NatLoop(ndv, idx, Dim, 0, 1, 0)

RECURSIVE RNatLoop(_, _, _, _, _, _)
RNatLoop(ndv, idx, Dim, index, product, i) ==
    LET index2 == index + idx[i] * product IN
    IF i = 0 THEN index2
    ELSE RNatLoop(ndv, idx, Dim, index2, product * ndv[i - 1], i - 1)

RNatMux(ndv, idx, Dim) == RNatLoop(ndv, idx, Dim, 0, 1, Dim - 1)

\* Order::template mux<Index, Dimension>(nd, indices)
Mux(ord, ndv, idx, Dim) ==
    IF ord = "natord" THEN NatMux(ndv, idx, Dim) ELSE RNatMux(ndv, idx, Dim)

\* ------------------------------------------------------------------ interp
\* constexpr Index Power = 1 << Dimension
RECURSIVE Pow2(_)
Pow2(d) == IF d = 0 THEN 1 ELSE 2 * Pow2(d - 1)

Power == Pow2(Dimension)

\* if(factor > epsilon())
Keep(f) == RGt(f, Eps)

\* yi[n] += factor * yd[k]
Accumulate(acc, f, v) == RAdd(acc, RMul(f, v))

\* What a read of table[k] can yield: the entry, or, outside the table, whatever
\* lies in memory there (two representative values).
OutOfBounds == {T(-7), T(7)}
TableReads(table, k) == IF k \in DOMAIN table THEN {table[k]} ELSE OutOfBounds

\* One outcome of the read, for the function form of interp below.
TableRead(table, k) == IF k \in DOMAIN table THEN table[k] ELSE T(-7)

\* The body of the bitstr loop for corner b of query point j, on accumulator acc.
CornerStep(ord, table, j, b, acc) ==
    LET r == Run(0, b, j, [indices |-> [k \in 0 .. Dimension - 1 |-> 0], factor |-> One]) IN
    IF Keep(r.factor)
    THEN Accumulate(acc, r.factor, TableRead(table, Mux(ord, nd, r.indices, Dimension)))
    ELSE acc

\* The bitstr loop from corner b on.
RECURSIVE CornerLoop(_, _, _, _, _)
CornerLoop(ord, table, j, b, acc) ==
    IF b >= Power THEN acc
    ELSE CornerLoop(ord, table, j, b + 1, CornerStep(ord, table, j, b, acc))

\* The value interp<ord> writes to yi[j] for the table `table`.
InterpPoint(ord, table, j) == CornerLoop(ord, table, j, 0, Zero)

\* ------------------------------------------------------------------ inputs
KnotVals == -1 .. MaxKnot

\* Strictly ascending knot arrays of length m.
AscendingKnots(m) ==
    {f \in [0 .. m - 1 -> KnotVals] : \A i \in 0 .. m - 2 : f[i] < f[i + 1]}

\* Any knot arrays of length m.
AnyKnots(m) == [0 .. m - 1 -> KnotVals]

ToT(f) == [i \in DOMAIN f |-> T(f[i])]

\* Query coordinates: every multiple of 1/QDen from just below the first
\* possible knot to just above the last one, and two far outside the grid.
QueryVals ==
    {Rat(q, QDen) : q \in (-QDen - 1) .. (MaxKnot * QDen + 1)}
        \cup {T(-MaxKnot - 7), T(MaxKnot + 7)}

\* The j-th query coordinate of an axis whose first one is x.
QueryArray(x, cnt) == [j \in 0 .. cnt - 1 |-> RAdd(x, Rat(3 * j, QDen))]

\* Value tables of a given size: ascending, descending, V-shaped.
Tables(size) ==
    { [i \in 0 .. size - 1 |-> T(i + 1)],
      [i \in 0 .. size - 1 |-> T(size - i)],
      [i \in 0 .. size - 1 |-> T(Abs(i - 1))] }

RECURSIVE Prod(_, _)
Prod(ndv, k) == IF k = 0 THEN 1 ELSE ndv[k - 1] * Prod(ndv, k - 1)

\* The template is instantiated for these numbers of axes.
Dims == {1, 2}

\* Knot arrays and first query coordinates offered to one axis of a call with
\* D axes: everything for one axis, a coarser choice for more.
KnotFamily(D) ==
    IF D = 1 THEN UNION {AscendingKnots(m) : m \in 2 .. MaxN}
    ELSE UNION {{f \in AscendingKnots(m) : f[0] = 0} : m \in 2 .. MaxN - 1}

QueryFamily(D) ==
    IF D = 1 THEN QueryVals
    ELSE {Rat(q, QDen) : q \in {-1, 1, QDen \div 2, QDen, 2 * QDen - 1, 2 * QDen + 1}}

NiFamily(D) == IF D = 1 THEN 1 .. MaxNi ELSE {1}

\* The state of interp before its first statement.
Control ==
    /\ yi = [j \in 0 .. ni - 1 |-> T(-7)]
    /\ n = 0
    /\ bitstr = 0
    /\ axis = 0
    /\ bits = 0
    /\ indices = [k \in 0 .. Dimension - 1 |-> 0]
    /\ factor = Zero
    /\ lo = 0
    /\ hi = 0
    /\ mid = 0
    /\ weight = Zero
    /\ pc = "for_n"

\* A call with knot arrays fs and first query coordinates xs on D axes.
Call(D, fs, xs) ==
    /\ Dimension = D
    /\ Order \in {"natord", "rnatord"}
    /\ nd = [k \in 0 .. D - 1 |-> Cardinality(DOMAIN fs[k])]
    /\ xd = [k \in 0 .. D - 1 |-> ToT(fs[k])]
    /\ yd \in Tables(Prod(nd, D))
    /\ ni \in NiFamily(D)
    /\ xi = [k \in 0 .. D - 1 |-> QueryArray(xs[k], ni)]
    /\ Control

\* Conforming calls: every axis strictly ascending with at least 2 knots.
Init ==
    \E D \in Dims :
       \E fs \in [0 .. D - 1 -> KnotFamily(D)], xs \in [0 .. D - 1 -> QueryFamily(D)] :
          Call(D, fs, xs)

\* Calls on one axis whose knot array is arbitrary (sorted or not).
InitAny ==
    \E f \in UNION {AnyKnots(m) : m \in 2 .. MaxN} :
    \E q \in (-3) .. (2 * MaxKnot + 1) :
       /\ Dimension = 1
       /\ Order = "natord"
       /\ nd = [k \in {0} |-> Cardinality(DOMAIN f)]
       /\ xd = [k \in {0} |-> ToT(f)]
       /\ yd = [i \in 0 .. nd[0] - 1 |-> T(i + 1)]
       /\ ni = 1
       /\ xi = [k \in {0} |-> QueryArray(Rat(q, 2), ni)]
       /\ Control

\* ----------------------------------------------------------------- actions
X == xi[axis][n]

\* for(Index n = 0; n < ni; ++n) { yi[n] = 0.; bitstr = 0
ForN ==
    /\ pc = "for_n"
    /\ n < ni
    /\ yi' = [yi EXCEPT ![n] = Zero]
    /\ bitstr' = 0
    /\ pc' = "for_bitstr"
    /\ UNCHANGED <<inputs, n, axis, bits, indices, factor, lo, hi, mid, weight>>

\* n = ni: interp returns.
ForNExit ==
    /\ pc = "for_n"
    /\ n >= ni
    /\ pc' = "done"
    /\ UNCHANGED <<inputs, yi, n, bitstr, axis, bits, indices, factor, lo, hi, mid, weight>>

\* for(bitstr < Power) { factor = 1.; h.run(nd, n, bitstr, indices, factor)
ForBitstr ==
    /\ pc = "for_bitstr"
    /\ bitstr < Power
    /\ factor' = One
    /\ axis' = 0
    /\ bits' = bitstr
    /\ pc' = "run"
    /\ UNCHANGED <<inputs, yi, n, bitstr, indices, lo, hi, mid, weight>>

\* bitstr = Power: ++n
ForBitstrExit ==
    /\ pc = "for_bitstr"
    /\ bitstr >= Power
    /\ n' = n + 1
    /\ pc' = "for_n"
    /\ UNCHANGED <<inputs, yi, bitstr, axis, bits, indices, factor, lo, hi, mid, weight>>

\* The empty helper at the end of the chain: run returns to interp.
RunBase ==
    /\ pc = "run"
    /\ axis = Dimension
    /\ pc' = "accum"
    /\ UNCHANGED <<inputs, yi, n, bitstr, axis, bits, indices, factor, lo, hi, mid, weight>>

\* x <= xd[0]
RunClampLeft ==
    /\ pc = "run"
    /\ axis < Dimension
    /\ ClampLeft(xd[axis], X)
    /\ mid' = 0
    /\ weight' = One
    /\ pc' = "select"
    /\ UNCHANGED <<inputs, yi, n, bitstr, axis, bits, indices, factor, lo, hi>>

\* x >= xd[*nd - 1]
RunClampRight ==
    /\ pc = "run"
    /\ axis < Dimension
    /\ ~ClampLeft(xd[axis], X)
    /\ ClampRight(xd[axis], nd[axis], X)
    /\ mid' = RightMid(nd[axis])
    /\ weight' = Zero
    /\ pc' = "select"
    /\ UNCHANGED <<inputs, yi, n, bitstr, axis, bits, indices, factor, lo, hi>>

\* else: lo = 0, hi = *nd - 2, mid = 0, weight = 0, and the first test of lo <= hi
RunSearch ==
    /\ pc = "run"
    /\ axis < Dimension
    /\ ~ClampLeft(xd[axis], X)
    /\ ~ClampRight(xd[axis], nd[axis], X)
    /\ lo' = 0
    /\ hi' = InitHi(nd[axis])
    /\ mid' = 0
    /\ weight' = Zero
    /\ pc' = IF lo' <= hi' THEN "while" ELSE "select"
    /\ UNCHANGED <<inputs, yi, n, bitstr, axis, bits, indices, factor>>

\* One iteration of the while loop, and the next test of lo <= hi.
WhileIter ==
    /\ pc = "while"
    /\ LET s == WhileBody(xd[axis], X,
                          [lo |-> lo, hi |-> hi, mid |-> mid, weight |-> weight, brk |-> FALSE])
       IN /\ lo' = s.lo
          /\ hi' = s.hi
          /\ mid' = s.mid
          /\ weight' = s.weight
          /\ pc' = IF s.brk \/ s.lo > s.hi THEN "select" ELSE "while"
    /\ UNCHANGED <<inputs, yi, n, bitstr, axis, bits, indices, factor>>

\* Lines 53-62: the index and factor of this axis, then the rest of the chain.
Select ==
    /\ pc = "select"
    /\ indices' = [indices EXCEPT ![axis] = SelectIndex(bits % 2, mid)]
    /\ factor' = SelectFactor(bits % 2, weight, factor)
    /\ axis' = axis + 1
    /\ bits' = bits \div 2
    /\ pc' = "run"
    /\ UNCHANGED <<inputs, yi, n, bitstr, lo, hi, mid, weight>>

\* factor > epsilon: yi[n] += factor * yd[mux(nd, indices)]; ++bitstr
AccumAdd ==
    /\ pc = "accum"
    /\ Keep(factor)
    /\ \E v \in TableReads(yd, Mux(Order, nd, indices, Dimension)) :
          yi' = [yi EXCEPT ![n] = Accumulate(yi[n], factor, v)]
    /\ bitstr' = bitstr + 1
    /\ pc' = "for_bitstr"
    /\ UNCHANGED <<inputs, n, axis, bits, indices, factor, lo, hi, mid, weight>>

\* factor <= epsilon: the corner is skipped; ++bitstr
AccumSkip ==
    /\ pc = "accum"
    /\ ~Keep(factor)
    /\ bitstr' = bitstr + 1
    /\ pc' = "for_bitstr"
    /\ UNCHANGED <<inputs, yi, n, axis, bits, indices, factor, lo, hi, mid, weight>>

Next ==
    \/ ForN
    \/ ForNExit
    \/ ForBitstr
    \/ ForBitstrExit
    \/ RunBase
    \/ RunClampLeft
    \/ RunClampRight
    \/ RunSearch
    \/ WhileIter
    \/ Select
    \/ AccumAdd
    \/ AccumSkip

Spec == Init /\ [][Next]_vars

SpecAny == InitAny /\ [][Next]_vars

\* ------------------------------------------------------ reference notions
\* (what the claims speak of; none of this is taken from the code)

\* x lies strictly inside the knot range of the axis being resolved.
Interior == RLt(xd[axis][0], X) /\ RLt(X, xd[axis][nd[axis] - 1])

\* Bit k of the corner bitmask b.
Bit(b, k) == (b \div Pow2(k)) % 2

\* All tuples of per-axis indices of the grid.
Tuples == {t \in [0 .. Dimension - 1 -> 0 .. MaxN] : \A k \in 0 .. Dimension - 1 : t[k] < nd[k]}

\* prod_{j > k} nd[j]
RECURSIVE ProdAbove(_, _)
ProdAbove(ndv, k) == IF k >= Dimension - 1 THEN 1 ELSE ndv[k + 1] * ProdAbove(ndv, k + 1)

\* sum_{k < d} idx[k] * prod_{j < k} nd[j]
RECURSIVE NatSum(_, _, _)
NatSum(ndv, idx, d) == IF d = 0 THEN 0 ELSE NatSum(ndv, idx, d - 1) + idx[d - 1] * Prod(ndv, d - 1)

\* sum_{k < d} idx[k] * prod_{j > k} nd[j]
RECURSIVE RevSum(_, _, _)
RevSum(ndv, idx, d) == IF d = 0 THEN 0 ELSE RevSum(ndv, idx, d - 1) + idx[d - 1] * ProdAbove(ndv, d - 1)

\* The flat index of a knot tuple in a table laid out in the given order.
LayoutIndex(ord, idx) ==
    IF ord = "natord" THEN NatSum(nd, idx, Dimension) ELSE RevSum(nd, idx, Dimension)

OtherOrder(ord) == IF ord = "natord" THEN "rnatord" ELSE "natord"

\* The table holding the data of `table` (laid out in order `from`) laid out in
\* the other order.
Relayout(table, from) ==
    [i \in DOMAIN table |->
        table[LayoutIndex(from, CHOOSE t \in Tuples : LayoutIndex(OtherOrder(from), t) = i)]]

\* Sum of g[b] over b in 0 .. m-1.
RECURSIVE SumTo(_, _)
SumTo(g, m) == IF m = 0 THEN Zero ELSE RAdd(SumTo(g, m - 1), g[m - 1])

StartRun == [indices |-> [k \in 0 .. Dimension - 1 |-> 0], factor |-> One]

\* The BlendFactor helper::run produces for corner b of query point j.
BlendFactor(j, b) == Run(0, b, j, StartRun).factor

\* prod_k (w_k if the corner c takes the lower knot on axis k, else 1 - w_k),
\* over the axes below d.
RECURSIVE CornerWeight(_, _, _)
CornerWeight(j, c, d) ==
    IF d = 0 THEN One
    ELSE LET w == Resolve(xd[d - 1], nd[d - 1], xi[d - 1][j]).weight IN
         RMul(CornerWeight(j, c, d - 1), IF c[d - 1] = 0 THEN w ELSE RSub(One, w))

\* The knot tuple of corner c (c[k] = 0: lower knot, 1: upper knot).
CornerTuple(j, c) ==
    [k \in 0 .. Dimension - 1 |-> Resolve(xd[k], nd[k], xi[k][j]).mid + c[k]]

Corners == [0 .. Dimension - 1 -> {0, 1}]

\* Sum of g[c] over the corners in S.
RECURSIVE SumOver(_, _)
SumOver(g, S) ==
    IF S = {} THEN Zero
    ELSE LET c == CHOOSE c \in S : TRUE IN RAdd(g[c], SumOver(g, S \ {c}))

\* The multilinear interpolant at query point j.
Multilinear(j) ==
    SumOver([c \in Corners |->
                RMul(CornerWeight(j, c, Dimension),
                     yd[LayoutIndex(Order, CornerTuple(j, c))])], Corners)

\* The sum over all corners as interp computes it, without the epsilon skip.
FullSum(j) ==
    SumTo([b \in 0 .. Power - 1 |->
              LET r == Run(0, b, j, StartRun) IN
              RMul(r.factor, TableRead(yd, Mux(Order, nd, r.indices, Dimension)))], Power)

RMin(a, b) == IF RLe(a, b) THEN a ELSE b
RMax(a, b) == IF RLe(a, b) THEN b ELSE a

\* ------------------------------------------------------------------ claims

\* C1: when run has resolved an axis (strictly ascending knots, n >= 2), the
\* bracket index mid lies in 0 .. n-2 and the weight in [0, 1]; for x strictly
\* inside the knot range, xd[mid] <= x < xd[mid+1] (a query on an interior knot
\* xd[i] gets mid = i) and weight = (xd[mid+1] - x) / (xd[mid+1] - xd[mid]).
C1_AxisResolver ==
    pc = "select" =>
        /\ mid \in 0 .. nd[axis] - 2
        /\ RLe(Zero, weight) /\ RLe(weight, One)
        /\ Interior =>
              /\ RLe(xd[axis][mid], X) /\ RLt(X, xd[axis][mid + 1])
              /\ RMul(weight, RSub(xd[axis][mid + 1], xd[axis][mid])) = RSub(xd[axis][mid + 1], X)
              /\ \A i \in 0 .. nd[axis] - 1 : X = xd[axis][i] => mid = i

\* A query exactly on an interior knot has been resolved to the bracket that
\* starts at that knot.
C1_Witness ==
    /\ pc = "select"
    /\ Interior
    /\ \E i \in 1 .. nd[axis] - 2 : X = xd[axis][i] /\ mid = i /\ weight = One

\* C2: x <= xd[0] resolves to mid = 0, w = 1 and x >= xd[n-1] to mid = n-2,
\* w = 0; the corner that takes the neighbour of the boundary knot gets factor
\* 0; in 1D the value written for such a query is exactly yd[0], resp. yd[n-1].
C2_BoundaryClamp ==
    /\ pc = "select" =>
          /\ RLe(X, xd[axis][0]) => mid = 0 /\ weight = One
          /\ RGe(X, xd[axis][nd[axis] - 1]) => mid = nd[axis] - 2 /\ weight = Zero
    /\ (pc = "run" /\ axis >= 1) =>
          LET k == axis - 1 IN
          /\ RLe(xi[k][n], xd[k][0]) => indices[k] = 0 \/ factor = Zero
          /\ RGe(xi[k][n], xd[k][nd[k] - 1]) => indices[k] = nd[k] - 1 \/ factor = Zero
    /\ (pc = "done" /\ Dimension = 1) =>
          \A j \in 0 .. ni - 1 :
             /\ RLe(xi[0][j], xd[0][0]) => yi[j] = yd[0]
             /\ RGe(xi[0][j], xd[0][nd[0] - 1]) => yi[j] = yd[nd[0] - 1]

\* A 1D call has returned with a query far right of the grid and one at or left
\* of the first knot answered by the boundary values.
C2_Witness ==
    /\ pc = "done"
    /\ Dimension = 1
    /\ nd[0] >= 3
    /\ yd[0] # yd[nd[0] - 1]
    /\ \E j \in 0 .. ni - 1 : xi[0][j] = T(MaxKnot + 7) /\ yi[j] = yd[nd[0] - 1]

\* C3 (as claimed): every value interp writes is the multilinear interpolant:
\* the sum over the 2^D bracketing corners of the product of the per-axis
\* weights times the table value of the corner's knot tuple.
C3_Multilinear ==
    pc = "done" => \A j \in 0 .. ni - 1 : yi[j] = Multilinear(j)

\* C4: each BlendFactor that run produces from factor = 1 lies in [0, 1], and
\* the 2^D BlendFactors of a query point sum to exactly 1.
C4_WeightConservation ==
    /\ pc = "accum" => RLe(Zero, factor) /\ RLe(factor, One) /\ factor = BlendFactor(n, bitstr)
    /\ pc = "for_bitstr" => SumTo([b \in 0 .. Power - 1 |-> BlendFactor(n, b)], Power) = One

\* The last corner of a point of a 2D call has a factor strictly between 0 and 1.
C4_Witness ==
    /\ pc = "accum"
    /\ Dimension = 2
    /\ bitstr = Power - 1
    /\ RLt(Zero, factor) /\ RLt(factor, One)
    /\ BlendFactor(n, 0) # BlendFactor(n, 1)

\* C5 (as claimed): natord::mux is sum_k idx[k] * prod_{j<k} nd[j], rnatord::mux
\* is sum_k idx[k] * prod_{j>k} nd[j], and interp in the other order on the
\* re-laid-out table gives the same results.
C5_OrderingEquivalence ==
    /\ (pc = "accum" /\ Keep(factor)) =>
          \A t \in Tuples :
             /\ NatMux(nd, t, Dimension) = NatSum(nd, t, Dimension)
             /\ RNatMux(nd, t, Dimension) = RevSum(nd, t, Dimension)
    /\ pc = "done" =>
          \A j \in 0 .. ni - 1 :
             yi[j] = InterpPoint(OtherOrder(Order), Relayout(yd, Order), j)

\* C6 (as claimed): in 1D, for a query strictly between two adjacent knots the
\* value written lies between the two knots' table values.
C6_NoOvershoot ==
    (pc = "done" /\ Dimension = 1) =>
        \A j \in 0 .. ni - 1 : \A i \in 0 .. nd[0] - 2 :
            (RLt(xd[0][i], xi[0][j]) /\ RLt(xi[0][j], xd[0][i + 1])) =>
                /\ RLe(RMin(yd[i], yd[i + 1]), yi[j])
                /\ RLe(yi[j], RMax(yd[i], yd[i + 1]))

\* C7 (as claimed): the value written with the epsilon skip equals the full sum
\* over all 2^D corners (stated for the calls whose table reads stay in the
\* table).
C7_SkipIsPureOptimisation ==
    (pc = "done" /\ \A t \in Tuples : Mux(Order, nd, t, Dimension) \in DOMAIN yd) =>
        \A j \in 0 .. ni - 1 : yi[j] = FullSum(j)

\* C8 (as claimed): bit k = 0 writes the lower index mid and multiplies the
\* factor by w; bit k = 1 writes mid + 1 and multiplies by 1 - w.
C8_BitZeroIsLower ==
    [][pc = "select" =>
          /\ indices'[axis] = IF Bit(bitstr, axis) = 0 THEN mid ELSE mid + 1
          /\ factor' = IF Bit(bitstr, axis) = 0 THEN RMul(factor, weight)
                       ELSE RMul(factor, RSub(One, weight))]_vars

\* C8 (amended): bit k = 1 writes the lower index mid and multiplies the factor
\* by w; bit k = 0 writes the upper index mid + 1 and multiplies by 1 - w.
C8_BitOneIsLower ==
    [][pc = "select" =>
          /\ indices'[axis] = IF Bit(bitstr, axis) = 1 THEN mid ELSE mid + 1
          /\ factor' = IF Bit(bitstr, axis) = 1 THEN RMul(factor, weight)
                       ELSE RMul(factor, RSub(One, weight))]_vars

\* The second axis of a 2D corner whose bit 1 is set and bit 0 is clear has just
\* been selected: lower index and weight w there, upper index on the first axis.
C8_Witness ==
    /\ pc = "run"
    /\ axis = 2
    /\ bitstr = 2
    /\ indices[1] = mid
    /\ indices[0] = Resolve(xd[0], nd[0], xi[0][n]).mid + 1
    /\ RLt(Zero, weight) /\ RLt(weight, One) /\ weight # Rat(1, 2)
    /\ RLt(Zero, factor)
    /\ factor = RMul(RSub(One, Resolve(xd[0], nd[0], xi[0][n]).weight), weight)

\* C9 (as claimed): every per-axis index run writes is in 0 .. n_k - 1, both mux
\* functions return a flat index in 0 .. prod_k n_k - 1, and distinct index
\* tuples get distinct flat indices.
C9_ReadsInBounds ==
    /\ pc = "accum" => \A k \in 0 .. Dimension - 1 : indices[k] \in 0 .. nd[k] - 1
    /\ (pc = "accum" /\ Keep(factor)) =>
          /\ Mux(Order, nd, indices, Dimension) \in DOMAIN yd
          /\ \A t \in Tuples :
                /\ NatMux(nd, t, Dimension) \in 0 .. Prod(nd, Dimension) - 1
                /\ RNatMux(nd, t, Dimension) \in 0 .. Prod(nd, Dimension) - 1
          /\ \A t, u \in Tuples :
                t # u => /\ NatMux(nd, t, Dimension) # NatMux(nd, u, Dimension)
                         /\ RNatMux(nd, t, Dimension) # RNatMux(nd, u, Dimension)

\* C10: for any knot array and x strictly inside its range, the loop keeps
\* xd[lo] <= x < xd[hi+1] with 0 <= lo <= hi <= n-2, each iteration that does
\* not break shrinks hi - lo, the loop is left by the break with
\* xd[mid] <= x < xd[mid+1] and never with lo > hi, and hi = mid - 1 is never
\* executed with mid = 0.
C10_SearchEndsByMatch ==
    /\ [](pc = "while" =>
            /\ Interior
            /\ 0 <= lo /\ lo <= hi /\ hi <= nd[axis] - 2
            /\ RLe(xd[axis][lo], X) /\ RLt(X, xd[axis][hi + 1]))
    /\ []((pc = "select" /\ Interior) =>
            /\ lo <= hi
            /\ RLe(xd[axis][mid], X) /\ RLt(X, xd[axis][mid + 1])
            /\ RLt(Zero, weight))
    /\ [](hi >= 0)
    /\ [][(pc = "while" /\ pc' = "while") => hi' - lo' < hi - lo]_vars
    /\ [][(pc = "while" /\ hi' # hi) => (mid' >= 1 /\ hi' = mid' - 1)]_vars

\* The search of an unsorted knot array has gone left and then matched.
C10_Witness ==
    /\ pc = "select"
    /\ Interior
    /\ \E i \in 0 .. nd[0] - 2 : RGt(xd[0][i], xd[0][i + 1])
    /\ hi < nd[axis] - 2
    /\ RLe(xd[axis][mid], X) /\ RLt(X, xd[axis][mid + 1])

====
